---- MODULE Spec2Model ----
(***************************************************************************)
(* Model of electron/main.js: the Electron main process that supervises    *)
(* the Streamlit backend (port allocation, spawn, crash restart, stop),    *)
(* owns the application window, and polls the backend for readiness.       *)
(*                                                                         *)
(* JavaScript runs each callback to completion, so every handler is one    *)
(* action.  An `await` splits a function into the part before it and the   *)
(* continuation after it.  Timers (2 s restart, 3 s start-up wait, 500 ms  *)
(* interval, 30 s timeout) are pending events that fire in some later      *)
(* step; Spec abstracts from how long they take, SpecPoll adds the order   *)
(* in which the interval and the timeout of one window can fire.           *)
(* SpecAlloc follows one call of findAvailablePort through its loop, one   *)
(* awaited bind probe per step.  SpecBridge is preload.js: the calls the   *)
(* page makes on electronAPI.send and electronAPI.receive.                 *)
(***************************************************************************)
EXTENDS Integers, FiniteSets, Sequences

\* ---------------------------------------------------------------- constants
BasePort == 8501        \* findAvailablePort(8501)
MaxAttempts == 100      \* while (port < startPort + 100)
IntervalMs == 500       \* setInterval(..., 500)
TimeoutMs == 30000      \* setTimeout(..., 30000)
StatusOK == 200         \* res.statusCode === 200

\* ------------------------------------------------------------------- bounds
MaxProcs == 2           \* ChildProcess objects that exist at the same time
MaxWindows == 2         \* BrowserWindow/poller pairs that exist at the same time
MaxPending == 1         \* pending restart timers / suspended startStreamlit calls
MaxInFlight == 2        \* readiness probes awaiting their response at the same time
MaxBusy == 1            \* occupied candidate ports in front of the first free one
TickCap == 62           \* interval ticks counted per poller in SpecPoll
MaxMixed == 3           \* leading candidate ports whose bind outcomes vary freely
MaxMsgs == 2            \* messages the page gets through ipcRenderer.send
MaxListeners == 2       \* listeners the page gets registered per channel

Procs == 1..MaxProcs
Wins == 1..MaxWindows
Platforms == {"win32", "linux", "darwin"}
\* what a readiness probe can come back with: a status code, or a connection error
Outcomes == {200, 204, 404, -1}

VARIABLES
    platform,         \* process.platform
    appState,         \* "running" | "quitting" (before-quit emitted) | "exited" (quit emitted)
    readyPc,          \* position of the app.whenReady() continuation
    isQuitting,       \* let isQuitting
    streamlitProcess, \* let streamlitProcess: 0 is null, else a ChildProcess
    streamlitPort,    \* let streamlitPort
    procs,            \* the ChildProcess objects and the OS processes behind them
    restartTimers,    \* pending setTimeout(startStreamlit, 2000)
    allocating,       \* restart calls of startStreamlit suspended in findAvailablePort
    hung,             \* calls of startStreamlit whose checkPort promise never settles
    mainWindow,       \* let mainWindow: 0 is null, else a BrowserWindow
    wins,             \* the BrowserWindow objects and the readiness poller of each
    sawSuccess,       \* history: some probe response carried a 2xx status
    allocCall,        \* one call of findAvailablePort: its position, `port`, its result
    bridge            \* preload.js: what reached ipcRenderer.send / ipcRenderer.on

vars == <<platform, appState, readyPc, isQuitting, streamlitProcess, streamlitPort,
          procs, restartTimers, allocating, hung, mainWindow, wins, sawSuccess,
          allocCall, bridge>>

supVars == <<streamlitProcess, streamlitPort, procs, restartTimers, allocating, hung>>
winVars == <<mainWindow, wins, sawSuccess>>
\* what no handler of main.js assigns
fixedVars == <<platform, allocCall, bridge>>

\* ------------------------------------------------------------ port allocator
Candidates == BasePort..(BasePort + MaxAttempts - 1)

\* The bind outcomes the environment can present: the first k candidates are in
\* use and the rest can be bound; every candidate is in use; the first k are in
\* use and candidate k fails to bind with an error other than EADDRINUSE.
BusyPrefix(k) == [p \in Candidates |-> IF p < BasePort + k THEN "EADDRINUSE" ELSE "listening"]
AllBusy == [p \in Candidates |-> "EADDRINUSE"]
OtherError(k) ==
    [p \in Candidates |-> IF p < BasePort + k THEN "EADDRINUSE"
                          ELSE IF p = BasePort + k THEN "EACCES" ELSE "listening"]
PortEnvs == {BusyPrefix(k) : k \in 0..MaxBusy} \cup {AllBusy}
              \cup {OtherError(k) : k \in 0..MaxBusy}

\* Mutant: every bind error other than EADDRINUSE is taken for a free port.
checkPort_OnlyInUse(port, env) == IF env[port] = "EADDRINUSE" THEN "false" ELSE "true"

\* checkPort: the value the promise resolves to, or "pending" when neither
\* handler resolves it (an 'error' whose code is not EADDRINUSE).
checkPort(port, env) ==
    CASE env[port] = "listening"  -> "true"
      [] env[port] = "EADDRINUSE" -> "false"
      [] OTHER                    -> "pending"

\* findAvailablePort: the loop probes startPort, startPort + 1, ... and moves on
\* while the probe resolves to false.  It leaves at the first candidate whose
\* probe does not: with that port when the probe resolved to true, never (-1)
\* when the awaited promise stays pending.  After 100 candidates probed false it
\* returns startPort.
findAvailablePort(startPort, env) ==
    LET tried == startPort..(startPort + MaxAttempts - 1)
        leaves == {port \in tried :
                     /\ checkPort(port, env) # "false"
                     /\ \A q \in startPort..(port - 1) : checkPort(q, env) = "false"}
    IN  IF leaves = {} THEN startPort
        ELSE LET port == CHOOSE q \in leaves : TRUE
             IN  IF checkPort(port, env) = "true" THEN port ELSE -1

\* The bind outcomes one call of findAvailablePort is followed under: each of
\* the first MaxMixed candidates binds, is in use, or fails with another error,
\* independently; all the later candidates behave alike.
Binds == {"listening", "EADDRINUSE", "EACCES"}
MixedEnv(head, rest) ==
    [p \in Candidates |-> IF p - BasePort < MaxMixed THEN head[p - BasePort + 1] ELSE rest]
BindEnvs == {MixedEnv(head, rest) : head \in [1..MaxMixed -> Binds], rest \in Binds}

\* A call of findAvailablePort(startPort) under env, right after `let port = startPort`.
enterLoop(startPort, env) ==
    [pc |-> "loop", startPort |-> startPort, env |-> env, port |-> startPort, result |-> 0]
\* One iteration of its while loop on call c: `await checkPort(port)`, then
\* return port, or port++, or never resume.
loopBody(c) ==
    CASE checkPort(c.port, c.env) = "true"  -> [c EXCEPT !.pc = "returned", !.result = c.port]
      [] checkPort(c.port, c.env) = "false" -> [c EXCEPT !.port = @ + 1]
      [] OTHER                              -> [c EXCEPT !.pc = "hung"]
\* The loop condition has failed: `return startPort`.
loopExit(c) == [c EXCEPT !.pc = "returned", !.result = c.startPort]

\* ------------------------------------------------------------- preload bridge
\* Channel names the page may pass to electronAPI, and message payloads.
Channels == {"toMain", "fromMain", "toHost", "fromHost", "other"}
Payloads == {"a", "b"}
validSendChannels == {"toMain"}
validReceiveChannels == {"fromMain"}

\* Mutant: send forwards whatever channel the page names.
sendAllowed_Any(channel) == channel \in Channels
\* validChannels.includes(channel) in send and in receive
sendAllowed(channel) == channel \in validSendChannels
receiveAllowed(channel) == channel \in validReceiveChannels

\* electronAPI.send(channel, data) on bridge state b
send(b, channel, data) ==
    IF sendAllowed(channel)
    THEN [b EXCEPT !.sent = Append(@, <<channel, data>>), !.last = <<"send", channel>>]
    ELSE [b EXCEPT !.last = <<"send", channel>>]
\* electronAPI.receive(channel, func) on bridge state b
receive(b, channel) ==
    IF receiveAllowed(channel)
    THEN [b EXCEPT !.listeners[channel] = @ + 1, !.last = <<"receive", channel>>]
    ELSE [b EXCEPT !.last = <<"receive", channel>>]

\* ------------------------------------------------------------------- state
NoCall == [pc |-> "none", startPort |-> 0, env |-> <<>>, port |-> 0, result |-> 0]
\* pc:   "none" no call is followed, "loop" at the loop condition, "returned",
\*       "hung" suspended on a checkPort promise that never settles
NoBridge == [sent |-> <<>>, listeners |-> [c \in Channels |-> 0], last |-> <<"none", "none">>]
\* sent: the (channel, data) pairs passed to ipcRenderer.send, in order
\* listeners: per channel, the listeners passed to ipcRenderer.on
\* last: the most recent call the page made on electronAPI, and its channel
NoProc == [st |-> "none", term |-> "no"]
\* st:   "none"     no such object (never spawned, or its 'close' was handled)
\*       "running"  the OS process is alive
\*       "failed"   spawn failed; 'error' is about to be emitted, then 'close'
\*       "reported" spawn failed and the 'error' handler has shown its dialog
\*       "exited"   the OS process has ended; 'close' is about to be emitted
\* term: the termination request issued against the live process, if any
NoWin == [open |-> FALSE, content |-> "none",
          active |-> FALSE, timeoutPending |-> FALSE, inflight |-> 0, ticks |-> 0]
\* open, content: the BrowserWindow and what it shows: "placeholder", "live" (the
\*       backend URL was loaded into it once), "reloaded" (more than once)
\* active, timeoutPending, inflight, ticks: the poller createWindow started with
\*       the window: whether checkReady is still set, whether the 30 s timer is
\*       pending, the http.get calls without a response yet, the interval
\*       callbacks run so far (counted in SpecPoll only)

\* main.js has been loaded: its globals have their initial values, nothing has run.
Loaded ==
    /\ platform \in Platforms
    /\ appState = "running"
    /\ readyPc = "init"
    /\ isQuitting = FALSE
    /\ streamlitProcess = 0
    /\ streamlitPort = BasePort
    /\ procs = [p \in Procs |-> NoProc]
    /\ restartTimers = 0
    /\ allocating = 0
    /\ hung = 0
    /\ mainWindow = 0
    /\ wins = [w \in Wins |-> NoWin]
    /\ sawSuccess = FALSE

Init ==
    /\ Loaded
    /\ allocCall = NoCall
    /\ bridge = NoBridge

Alive == appState # "exited"
Live == {p \in Procs : procs[p].st = "running"}

\* ------------------------------------------------------- process supervisor
\* A new ChildProcess is an object distinct from the one streamlitProcess holds.
FreeProcs == {p \in Procs : procs[p].st = "none" /\ p # streamlitProcess}
NewProc == CHOOSE p \in FreeProcs : \A q \in FreeProcs : p <= q

\* startStreamlit after its await: the port is stored, the process is spawned
\* (ok: the executable could be started) and its handlers are attached.
spawnBackend(port, ok) ==
    /\ FreeProcs # {}
    /\ streamlitPort' = port
    /\ procs' = [procs EXCEPT ![NewProc] =
                    [st |-> IF ok THEN "running" ELSE "failed", term |-> "no"]]
    /\ streamlitProcess' = NewProc

\* Mutant: the restart is scheduled by two handlers ('exit' and 'close').
closeHandler_Twice(p) ==
    /\ procs' = [procs EXCEPT ![p] = NoProc]
    /\ restartTimers' = IF ~isQuitting THEN restartTimers + 2 ELSE restartTimers

\* streamlitProcess.on('close'): schedules the restart unless quitting.
closeHandler(p) ==
    /\ procs' = [procs EXCEPT ![p] = NoProc]
    /\ restartTimers' = IF ~isQuitting THEN restartTimers + 1 ELSE restartTimers

\* Mutant: stopStreamlit does not reset streamlitProcess to null.
stopStreamlit_KeepHandle(ps, h) ==
    IF h # 0
    THEN [procs  |-> [ps EXCEPT ![h].term =
                        IF ps[h].st = "running"
                        THEN (IF platform = "win32" THEN "taskkill" ELSE "SIGTERM")
                        ELSE @],
          handle |-> h, signalled |-> {h}]
    ELSE [procs |-> ps, handle |-> h, signalled |-> {}]

\* stopStreamlit on handle h and process table ps: kill (or taskkill) what the
\* handle names and drop the handle.  The request is only issued; the process
\* ends in a later ProcessExit step.  signalled: the objects this call has
\* called kill or taskkill on.
stopStreamlit(ps, h) ==
    IF h # 0
    THEN [procs  |-> [ps EXCEPT ![h].term =
                        IF ps[h].st = "running"
                        THEN (IF platform = "win32" THEN "taskkill" ELSE "SIGTERM")
                        ELSE @],
          handle |-> 0, signalled |-> {h}]
    ELSE [procs |-> ps, handle |-> h, signalled |-> {}]

\* app.on('before-quit'), which also sets isQuitting, and app.on('quit')
beforeQuitHandler(ps, h) == stopStreamlit(ps, h)
\* Mutant: no 'quit' handler, the stop of 'before-quit' is taken to be enough.
quitHandler_NoStop(ps, h) == [procs |-> ps, handle |-> h, signalled |-> {}]
quitHandler(ps, h) == stopStreamlit(ps, h)

\* app.quit() while open windows remain (stillOpen): 'before-quit' is emitted and
\* Electron starts closing the windows; 'quit' follows when the last one has
\* closed.  With no window open 'quit' is emitted in the same call.
appQuit(stillOpen) ==
    LET s1 == beforeQuitHandler(procs, streamlitProcess)
        s2 == IF stillOpen THEN s1 ELSE quitHandler(s1.procs, s1.handle)
    IN  /\ isQuitting' = TRUE
        /\ procs' = s2.procs
        /\ streamlitProcess' = s2.handle
        /\ appState' = IF stillOpen THEN "quitting" ELSE "exited"

\* The last window has closed after 'before-quit': 'quit' is emitted.
appExit ==
    LET s == quitHandler(procs, streamlitProcess)
    IN  /\ procs' = s.procs
        /\ streamlitProcess' = s.handle
        /\ appState' = "exited"
        /\ UNCHANGED isQuitting

\* app.whenReady().then(...): startStreamlit() is called and suspends at its await.
WhenReady ==
    /\ Alive /\ readyPc = "init"
    /\ readyPc' = "alloc"
    /\ UNCHANGED <<fixedVars, appState, isQuitting, supVars, winVars>>

\* The first startStreamlit call resumes: findAvailablePort has returned (or hangs).
ResumeFirst ==
    /\ Alive /\ readyPc = "alloc"
    /\ \E env \in PortEnvs :
         LET port == findAvailablePort(BasePort, env) IN
         IF port = -1
         THEN /\ readyPc' = "hung"
              /\ UNCHANGED <<streamlitPort, procs, streamlitProcess>>
         ELSE /\ \E ok \in BOOLEAN : spawnBackend(port, ok)
              /\ readyPc' = "wait3s"
    /\ UNCHANGED <<fixedVars, appState, isQuitting, restartTimers, allocating, hung, winVars>>

\* The 2 s restart timer fires: startStreamlit() is called and suspends at its await.
RestartTimer ==
    /\ Alive /\ restartTimers > 0 /\ allocating < MaxPending
    /\ restartTimers' = restartTimers - 1
    /\ allocating' = allocating + 1
    /\ UNCHANGED <<fixedVars, appState, readyPc, isQuitting, streamlitProcess,
                   streamlitPort, procs, hung, winVars>>

\* A restart call of startStreamlit resumes.
ResumeRestart ==
    /\ Alive /\ allocating > 0
    /\ allocating' = allocating - 1
    /\ \E env \in PortEnvs :
         LET port == findAvailablePort(BasePort, env) IN
         IF port = -1
         THEN /\ hung < MaxPending
              /\ hung' = hung + 1
              /\ UNCHANGED <<streamlitPort, procs, streamlitProcess>>
         ELSE /\ \E ok \in BOOLEAN : spawnBackend(port, ok)
              /\ hung' = hung
    /\ UNCHANGED <<fixedVars, appState, readyPc, isQuitting, restartTimers, winVars>>

\* The backend process ends: it crashed, or a termination request took effect.
ProcessExit(p) ==
    /\ Alive /\ procs[p].st = "running"
    /\ procs' = [procs EXCEPT ![p] = [st |-> "exited", term |-> "no"]]
    /\ UNCHANGED <<fixedVars, appState, readyPc, isQuitting, streamlitProcess,
                   streamlitPort, restartTimers, allocating, hung, winVars>>

\* streamlitProcess.on('error'): dialog.showErrorBox; Node emits 'close' next.
ErrorHandler(p) ==
    /\ Alive /\ procs[p].st = "failed"
    /\ procs' = [procs EXCEPT ![p].st = "reported"]
    /\ UNCHANGED <<fixedVars, appState, readyPc, isQuitting, streamlitProcess,
                   streamlitPort, restartTimers, allocating, hung, winVars>>

\* 'close' is emitted for an ended process and for a failed spawn.
CloseHandler(p) ==
    /\ Alive /\ procs[p].st \in {"exited", "reported"}
    /\ (~isQuitting => restartTimers < MaxPending)
    /\ closeHandler(p)
    /\ UNCHANGED <<fixedVars, appState, readyPc, isQuitting, streamlitProcess,
                   streamlitPort, allocating, hung, winVars>>

\* --------------------------------------------------- window and readiness poller
OpenWins == {w \in Wins : wins[w].open}
\* A window/poller pair is gone once the window is closed and nothing of its
\* poller can run any more.
Gone(r) == ~r.open /\ ~r.active /\ ~r.timeoutPending /\ r.inflight = 0
Tidy(ws) == [w \in Wins |-> IF Gone(ws[w]) THEN NoWin ELSE ws[w]]
FreeWins == {w \in Wins : wins[w] = NoWin}
NewWin == CHOOSE w \in FreeWins : \A v \in FreeWins : w <= v

\* createWindow: the window shows the placeholder, checkReady and the 30 s timer
\* are set.
createWindow ==
    /\ FreeWins # {}
    /\ mainWindow' = NewWin
    /\ wins' = [wins EXCEPT ![NewWin] =
                  [open |-> TRUE, content |-> "placeholder",
                   active |-> TRUE, timeoutPending |-> TRUE, inflight |-> 0, ticks |-> 0]]

\* HTTP success: a response (not a connection error) with a 2xx status.
Is2xx(outcome) == outcome >= 200 /\ outcome <= 299

\* Mutant: any response counts as ready, whatever its status.
isReady_AnyStatus(statusCode) == statusCode > 0
\* The condition under which a probe response counts as ready.
isReady(statusCode) == statusCode = StatusOK

\* mainWindow.loadURL(url) on the window the global names at that moment.
loadLive(ws, mw) ==
    IF mw = 0 THEN ws   \* TypeError: nothing is loaded, the exception is uncaught
    ELSE [ws EXCEPT ![mw].content = IF @ = "placeholder" THEN "live" ELSE "reloaded"]

\* The http.get callbacks of poller w: on a ready response clearInterval and
\* loadURL; otherwise, and on 'error', nothing.
probeResponse(w, outcome) ==
    LET got == [wins EXCEPT ![w].inflight = @ - 1] IN
    /\ wins' = IF outcome # -1 /\ isReady(outcome)
               THEN Tidy(loadLive([got EXCEPT ![w].active = FALSE], mainWindow))
               ELSE Tidy(got)
    /\ UNCHANGED mainWindow

\* The setInterval callback of poller w: one http.get is issued.
intervalTick(ws, w) == [ws EXCEPT ![w].inflight = @ + 1]

\* Mutant: the timeout callback does not clear the interval.
timeoutHandler_NoClear(ws, w) == [ws EXCEPT ![w].timeoutPending = FALSE]
\* The 30 s setTimeout callback of poller w: clearInterval(checkReady).
timeoutHandler(ws, w) == [ws EXCEPT ![w].timeoutPending = FALSE, ![w].active = FALSE]

\* Targets the page in a window asks to open in a new window.
Urls == {"https://streamlit.io/", "http://localhost:8501/?page=2"}
\* Mutant: the handler also lets Electron open the new window.
windowOpenHandler_Allow(url) == [action |-> "allow", external |-> {url}]
\* The handler given to setWindowOpenHandler: what it returns, and what it has
\* passed to shell.openExternal.
windowOpenHandler(url) == [action |-> "deny", external |-> {url}]
\* The window Electron opens on its own when the handler allows it: no poller,
\* no handler of main.js.
ChildWin == [open |-> TRUE, content |-> "child",
             active |-> FALSE, timeoutPending |-> FALSE, inflight |-> 0, ticks |-> 0]

\* mainWindow.on('closed') of window w, the window object being destroyed.
closedHandler(w) ==
    /\ mainWindow' = 0
    /\ wins' = Tidy([wins EXCEPT ![w].open = FALSE, ![w].content = "none"])

\* The continuation of app.whenReady after `await startStreamlit()` (its 3 s
\* timer has fired): createWindow, then the 'activate' handler is registered.
ReadyContinue ==
    /\ Alive /\ readyPc = "wait3s"
    /\ createWindow
    /\ readyPc' = "done"
    /\ UNCHANGED <<fixedVars, appState, isQuitting, supVars, sawSuccess>>

\* Mutant: 'activate' starts the backend before it creates the window, as the
\* whenReady continuation does.
Activate_Relaunch ==
    /\ appState = "running" /\ readyPc = "done" /\ platform = "darwin"
    /\ OpenWins = {}
    /\ createWindow
    /\ spawnBackend(BasePort, TRUE)
    /\ UNCHANGED <<fixedVars, appState, readyPc, isQuitting, restartTimers, allocating,
                   hung, sawSuccess>>

\* app.on('activate') (macOS: the dock icon is clicked).
Activate ==
    /\ appState = "running" /\ readyPc = "done" /\ platform = "darwin"
    /\ OpenWins = {}
    /\ createWindow
    /\ UNCHANGED <<fixedVars, appState, readyPc, isQuitting, supVars, sawSuccess>>

RECURSIVE InFlight(_)
InFlight(W) == IF W = {} THEN 0
               ELSE LET w == CHOOSE v \in W : TRUE IN wins[w].inflight + InFlight(W \ {w})

Tick(w) ==
    /\ Alive /\ wins[w].active /\ InFlight(Wins) < MaxInFlight
    /\ wins' = intervalTick(wins, w)
    /\ UNCHANGED <<fixedVars, appState, readyPc, isQuitting, supVars, mainWindow, sawSuccess>>

\* The interval callback under the order in which Node fires the two timers of
\* one createWindow call: the k-th interval callback is due 500*k ms after the
\* call or later, the timeout callback 30000 ms after it, and callbacks fire in
\* the order they are due.
TickTimed(w) ==
    /\ Alive /\ wins[w].active /\ InFlight(Wins) < MaxInFlight
    /\ wins[w].ticks < TickCap
    /\ wins[w].timeoutPending => (wins[w].ticks + 1) * IntervalMs <= TimeoutMs
    /\ wins' = [intervalTick(wins, w) EXCEPT ![w].ticks = @ + 1]
    /\ UNCHANGED <<fixedVars, appState, readyPc, isQuitting, supVars, mainWindow, sawSuccess>>

ProbeResponse(w) ==
    /\ Alive /\ wins[w].inflight > 0
    /\ \E outcome \in Outcomes :
          /\ probeResponse(w, outcome)
          /\ sawSuccess' = (sawSuccess \/ Is2xx(outcome))
    /\ UNCHANGED <<fixedVars, appState, readyPc, isQuitting, supVars>>

Timeout(w) ==
    /\ Alive /\ wins[w].timeoutPending
    /\ wins' = Tidy(timeoutHandler(wins, w))
    /\ UNCHANGED <<fixedVars, appState, readyPc, isQuitting, supVars, mainWindow, sawSuccess>>

\* The page in window w asks for a new window (window.open, a target=_blank
\* link): Electron calls the window-open handler and acts on what it returns.
WindowOpen(w) ==
    /\ Alive /\ wins[w].open
    /\ \E url \in Urls :
          IF windowOpenHandler(url).action = "allow"
          THEN FreeWins # {} /\ wins' = [wins EXCEPT ![NewWin] = ChildWin]
          ELSE wins' = wins
    /\ UNCHANGED <<fixedVars, appState, readyPc, isQuitting, supVars, mainWindow, sawSuccess>>

\* Window w closes (by the user, or by Electron while quitting): its 'closed'
\* handler runs; if it was the last window, 'window-all-closed' is emitted
\* (app.quit() unless on macOS) or, while quitting, 'quit'.
CloseWindow(w) ==
    /\ Alive /\ wins[w].open
    /\ closedHandler(w)
    /\ IF OpenWins # {w} THEN UNCHANGED <<appState, isQuitting, procs, streamlitProcess>>
       ELSE IF appState = "quitting" THEN appExit
       ELSE IF platform # "darwin" THEN appQuit(FALSE)
       ELSE UNCHANGED <<appState, isQuitting, procs, streamlitProcess>>
    /\ UNCHANGED <<fixedVars, readyPc, streamlitPort, restartTimers, allocating, hung,
                   sawSuccess>>

\* The user quits the application (menu, Cmd+Q): app.quit().
BeforeQuit ==
    /\ appState = "running"
    /\ appQuit(OpenWins # {})
    /\ UNCHANGED <<fixedVars, readyPc, streamlitPort, restartTimers, allocating, hung, winVars>>

\* ------------------------------------------------------------ specification
Next ==
    \/ WhenReady
    \/ ResumeFirst
    \/ RestartTimer
    \/ ResumeRestart
    \/ \E p \in Procs : ProcessExit(p)
    \/ \E p \in Procs : ErrorHandler(p)
    \/ \E p \in Procs : CloseHandler(p)
    \/ ReadyContinue
    \/ Activate
    \/ \E w \in Wins : Tick(w)
    \/ \E w \in Wins : ProbeResponse(w)
    \/ \E w \in Wins : Timeout(w)
    \/ \E w \in Wins : CloseWindow(w)
    \/ \E w \in Wins : WindowOpen(w)
    \/ BeforeQuit

Spec == Init /\ [][Next]_vars

\* What the event loop guarantees: a due timer fires, an emitted event reaches
\* its handler, a settled promise resumes its await.  Crashes of the backend and
\* what the user does are not fair.
Fairness ==
    /\ WF_vars(WhenReady)
    /\ WF_vars(ResumeFirst)
    /\ WF_vars(RestartTimer)
    /\ WF_vars(ResumeRestart)
    /\ WF_vars(ReadyContinue)
    /\ \A p \in Procs : WF_vars(ErrorHandler(p)) /\ WF_vars(CloseHandler(p))
    /\ \A w \in Wins : WF_vars(Tick(w)) /\ WF_vars(ProbeResponse(w)) /\ WF_vars(Timeout(w))

FairSpec == Spec /\ Fairness

\* One window and its poller, with the interval callbacks counted: the state
\* right after the first createWindow, the backend running.
InitPoll ==
    /\ platform \in Platforms
    /\ appState = "running"
    /\ readyPc = "done"
    /\ isQuitting = FALSE
    /\ streamlitProcess = 1
    /\ streamlitPort = BasePort
    /\ procs = [p \in Procs |-> IF p = 1 THEN [st |-> "running", term |-> "no"] ELSE NoProc]
    /\ restartTimers = 0
    /\ allocating = 0
    /\ hung = 0
    /\ mainWindow = 1
    /\ wins = [w \in Wins |-> IF w = 1
                  THEN [open |-> TRUE, content |-> "placeholder", active |-> TRUE,
                        timeoutPending |-> TRUE, inflight |-> 0, ticks |-> 0]
                  ELSE NoWin]
    /\ sawSuccess = FALSE
    /\ allocCall = NoCall
    /\ bridge = NoBridge

NextPoll ==
    \/ \E w \in Wins : TickTimed(w)
    \/ \E w \in Wins : ProbeResponse(w)
    \/ \E w \in Wins : Timeout(w)
    \/ \E w \in Wins : CloseWindow(w)
    \/ BeforeQuit

SpecPoll == InitPoll /\ [][NextPoll]_vars

\* One call findAvailablePort(8501), followed through its loop under every bind
\* environment of BindEnvs.
InitAlloc ==
    /\ Loaded
    /\ allocCall \in {enterLoop(BasePort, env) : env \in BindEnvs}
    /\ bridge = NoBridge

AllocProbe ==
    /\ allocCall.pc = "loop"
    /\ allocCall.port < allocCall.startPort + MaxAttempts
    /\ allocCall' = loopBody(allocCall)
    /\ UNCHANGED <<platform, bridge, appState, readyPc, isQuitting, supVars, winVars>>

AllocExit ==
    /\ allocCall.pc = "loop"
    /\ ~(allocCall.port < allocCall.startPort + MaxAttempts)
    /\ allocCall' = loopExit(allocCall)
    /\ UNCHANGED <<platform, bridge, appState, readyPc, isQuitting, supVars, winVars>>

NextAlloc == AllocProbe \/ AllocExit

SpecAlloc == InitAlloc /\ [][NextAlloc]_vars

\* The page in the window calls the API preload.js exposes.
Send ==
    /\ Len(bridge.sent) < MaxMsgs
    /\ \E channel \in Channels, data \in Payloads : bridge' = send(bridge, channel, data)
    /\ UNCHANGED <<platform, allocCall, appState, readyPc, isQuitting, supVars, winVars>>

Receive ==
    /\ \E channel \in Channels :
          /\ bridge.listeners[channel] < MaxListeners
          /\ bridge' = receive(bridge, channel)
    /\ UNCHANGED <<platform, allocCall, appState, readyPc, isQuitting, supVars, winVars>>

NextBridge == Send \/ Receive

SpecBridge == Init /\ [][NextBridge]_vars

\* ------------------------------------------------------------------- claims
Spawned(p) == procs[p].st = "none" /\ procs'[p].st \in {"running", "failed"}
ShowsLive(w) == wins[w].content \in {"live", "reloaded"}
\* a step in which mainWindow.loadURL(url) put the live app into window w
LoadsLive(w) == wins'[w].open /\ wins[w].content # wins'[w].content
                  /\ wins'[w].content \in {"live", "reloaded"}

\* C1: once shutdown has been requested (isQuitting is set), no step launches a
\* backend process, whether the restart timer was pending or startStreamlit was
\* suspended in port allocation at that moment.
C1_NoLaunchAfterQuit == [][isQuitting => \A p \in Procs : ~Spawned(p)]_vars

\* C2: in every reachable state at most one backend process is live.
C2_AtMostOneLive == Cardinality(Live) <= 1
\* a relaunched backend is live: its predecessor has exited and its 'close' was handled
C2_Witness == procs[2].st = "running" /\ procs[1].st = "none" /\ streamlitProcess = 2

\* C3: when stopStreamlit returns (the handle it held has been dropped), the
\* process it was called on is no longer running.
C3_NotRunningAfterStop ==
    [][(streamlitProcess # 0 /\ streamlitProcess' = 0)
          => procs'[streamlitProcess].st # "running"]_vars

\* C4: when the application has quit, every backend process that is still
\* running has had a termination request (SIGTERM or taskkill) issued against it.
C4_NoLeakAtQuit ==
    appState = "exited" => \A p \in Procs : procs[p].st = "running" => procs[p].term # "no"
C4_Witness ==
    appState = "exited" /\ \E p \in Procs : procs[p].st = "running" /\ procs[p].term # "no"

\* C5: whenever the backend has exited and no shutdown is requested, a backend is
\* eventually launched again, unless shutdown is requested in between.
C5_EventuallyRelaunched ==
    (~isQuitting /\ \E p \in Procs : procs[p].st = "exited")
       ~> (isQuitting \/ \E p \in Procs : procs[p].st \in {"running", "failed"})

\* C6: the 'close' of a launch that failed to start (its 'error' handler has
\* shown the dialog) schedules no further launch.
C6_FailedLaunchNotRetried ==
    [][\A p \in Procs : (procs[p].st = "reported" /\ procs'[p].st = "none")
                           => restartTimers' = restartTimers]_vars

\* C7: a window shows the live app only after some readiness probe has returned
\* a success response.
C7_LiveOnlyAfterSuccess == (\E w \in Wins : ShowsLive(w)) => sawSuccess
C7_Witness == \E w \in Wins : wins[w].content = "live" /\ sawSuccess

\* C8: the live app is loaded into one window at most once.
C8_LoadedOnce == \A w \in Wins : wins[w].content # "reloaded"

\* C9: once shutdown has been requested, no step loads the live app into a window.
C9_NoLoadAfterQuit == [][isQuitting => \A w \in Wins : ~LoadsLive(w)]_vars

\* C10: a poller issues at most timeout/interval + 1 probes, it does not tick
\* after its timeout has fired, and while no probe has returned a success
\* response no window shows the live app.
C10_PollingBounded ==
    /\ \A w \in Wins : wins[w].ticks <= (TimeoutMs \div IntervalMs) + 1
    /\ \A w \in Wins : wins[w].active => wins[w].timeoutPending
    /\ ~sawSuccess => \A w \in Wins : ~ShowsLive(w)
\* the timeout has fired after a full budget of unsuccessful probes
C10_Witness ==
    /\ ~sawSuccess
    /\ \E w \in Wins : /\ wins[w].open /\ ~wins[w].timeoutPending /\ ~wins[w].active
                       /\ wins[w].ticks = TimeoutMs \div IntervalMs
                       /\ wins[w].content = "placeholder"

\* the candidates of call c, and those of them a listener can bind
Tried(c) == c.startPort..(c.startPort + MaxAttempts - 1)
Available(c) == {p \in Tried(c) : c.env[p] = "listening"}

\* C11: whenever findAvailablePort returns, its result is the lowest-numbered
\* available port among the candidates startPort .. startPort + 99, or startPort
\* when none of them is available; so it is one of the candidates.
C11_LowestAvailable ==
    allocCall.pc = "returned" =>
       /\ allocCall.result \in Tried(allocCall)
       /\ Available(allocCall) # {} =>
             /\ allocCall.result \in Available(allocCall)
             /\ \A q \in Available(allocCall) : allocCall.result <= q
       /\ Available(allocCall) = {} => allocCall.result = allocCall.startPort
\* 8501 is occupied and 8502 is free: the call has returned 8502
C11_Witness ==
    /\ allocCall.pc = "returned"
    /\ allocCall.env[BasePort] = "EADDRINUSE" /\ allocCall.env[BasePort + 1] = "listening"
    /\ allocCall.result = BasePort + 1
\* no candidate is available: the call has returned startPort after 100 probes
C11_WitnessNone ==
    /\ allocCall.pc = "returned" /\ Available(allocCall) = {}
    /\ allocCall.port = allocCall.startPort + MaxAttempts
    /\ allocCall.result = allocCall.startPort

\* C12: stopStreamlit called with no handle held requests no termination and
\* changes nothing, and a second call right after a first (before-quit, then
\* quit) requests no termination and leaves what the first call left.
C12_StopIdempotent ==
    LET once  == stopStreamlit(procs, streamlitProcess)
        twice == stopStreamlit(once.procs, once.handle)
    IN  /\ twice.signalled = {}
        /\ twice.procs = once.procs /\ twice.handle = once.handle
        /\ streamlitProcess = 0 =>
              once = [procs |-> procs, handle |-> 0, signalled |-> {}]
\* app.quit() with no window open has run before-quit and quit in a row on a
\* held handle: the one process was signalled, the handle is dropped
C12_Witness ==
    /\ appState = "exited" /\ streamlitProcess = 0 /\ mainWindow = 0
    /\ Cardinality({p \in Procs : procs[p].term # "no"}) = 1

\* C13: at most one application window is open in every reachable state, no
\* window is one that a window-open request of the page has opened, and the
\* window-open handler hands the target of every request to shell.openExternal.
C13_SingleWindow ==
    /\ Cardinality(OpenWins) <= 1
    /\ \A w \in Wins : wins[w].content # "child"
    /\ \A url \in Urls : windowOpenHandler(url).external = {url}
\* the window was closed and the application re-activated: the second window is
\* open while the poller of the first is still around
C13_Witness ==
    /\ OpenWins = {2} /\ mainWindow = 2
    /\ ~wins[1].open /\ wins[1] # NoWin

\* a step of the 'activate' handler that finds no window open
Reactivated == readyPc = "done" /\ OpenWins = {} /\ OpenWins' # {}

\* C14: a re-activation with no window open creates a window that shows the
\* placeholder and whose readiness poller runs, and leaves the supervisor as it
\* was: same port, same process handle, same processes, no startStreamlit call.
C14_ActivateKeepsSupervisor ==
    [][Reactivated =>
         /\ wins'[mainWindow'].open
         /\ wins'[mainWindow'].content = "placeholder" /\ wins'[mainWindow'].active
         /\ streamlitPort' = streamlitPort
         /\ streamlitProcess' = streamlitProcess
         /\ procs' = procs
         /\ restartTimers' = restartTimers /\ allocating' = allocating /\ hung' = hung]_vars
\* re-activated while the backend runs: the second window polls, the backend is
\* the one launched at start-up
C14_Witness ==
    /\ platform = "darwin" /\ mainWindow = 2
    /\ wins[2].open /\ wins[2].content = "placeholder" /\ wins[2].active
    /\ streamlitProcess = 1 /\ procs[1].st = "running"

\* a step in which a restart call of startStreamlit has spawned a backend that runs
Relaunched == readyPc = "done" /\ \E p \in Procs : procs[p].st = "none" /\ procs'[p].st = "running"

\* C15: when the backend is relaunched after an unexpected exit and no shutdown
\* is requested, every open window that showed the live app shows the
\* placeholder again and its readiness poller runs again.
C15_PlaceholderAfterRelaunch ==
    [][(~isQuitting /\ Relaunched) =>
          \A w \in OpenWins : ShowsLive(w) =>
              wins'[w].content = "placeholder" /\ wins'[w].active]_vars

\* C16: an automatic relaunch passes the backend the port of the previous
\* launch: streamlitPort, which the URL of the existing window was built from,
\* is not changed by the restart call.
C16_RelaunchSamePort == [][Relaunched => streamlitPort' = streamlitPort]_vars

\* the channel names that have reached ipcRenderer.send or ipcRenderer.on
SentOn == {bridge.sent[i][1] : i \in 1..Len(bridge.sent)}
ListenedOn == {c \in Channels : bridge.listeners[c] > 0}

\* C17: whatever the page calls, ipcRenderer.send has been called on the one
\* allowed outbound channel only and ipcRenderer.on on the one allowed inbound
\* channel only: a call that names any other channel leaves no trace, and at
\* most two channel names cross the boundary.
C17_OnlyAllowedChannels ==
    /\ Cardinality(validSendChannels) = 1 /\ Cardinality(validReceiveChannels) = 1
    /\ SentOn \subseteq validSendChannels
    /\ ListenedOn \subseteq validReceiveChannels
    /\ Cardinality(SentOn \cup ListenedOn) <= 2
\* one message and one listener got through, and the page's last call, a send
\* on a channel that is not allowed, added nothing
C17_Witness ==
    /\ bridge.last = <<"send", "toHost">>
    /\ bridge.sent = << <<"toMain", "a">> >>
    /\ ListenedOn = {"fromMain"}
\* the page's last call, a receive on the outbound channel, registered nothing
C17_WitnessReceive ==
    /\ bridge.last = <<"receive", "toMain">>
    /\ ListenedOn = {}

\* C18: at most one readiness probe of a window is in flight at any time.
C18_ProbesNeverStack == \A w \in Wins : wins[w].inflight <= 1

\* a step in which a probe of window w, the open window mainWindow names, whose
\* poller is running, gets its response
Responds(w) == wins[w].inflight > wins'[w].inflight /\ wins[w].open /\ wins[w].active
                  /\ mainWindow = w
\* a step in which the first response with a 2xx status arrives
FirstSuccess == ~sawSuccess /\ sawSuccess'

\* C19: a probe response with a 2xx status stops the polling and loads the live
\* app; a response with another status, or a connection failure, stops nothing
\* and loads nothing.
C19_Any2xxMarksReady ==
    [][\A w \in Wins : Responds(w) =>
          /\ FirstSuccess => ~wins'[w].active /\ wins'[w].content = "live"
          /\ ~sawSuccess' => wins'[w].active /\ wins'[w].content = wins[w].content]_vars

\* C20: no call of findAvailablePort is left suspended on a bind probe that
\* never yields: it returns, having probed at most 100 candidates.
C20_AllocationTerminates ==
    /\ allocCall.pc # "hung"
    /\ allocCall.pc = "returned" => allocCall.port - allocCall.startPort <= MaxAttempts

\* a step in which a response that counts as ready is handled for the running
\* poller of window w: the interval is cleared and mainWindow.loadURL(url) is called
ReadyHandled(w) == wins[w].active /\ ~wins'[w].active /\ wins'[w].inflight < wins[w].inflight

\* C21: whenever the poller handles a ready response and calls loadURL,
\* mainWindow is not null.
C21_LoadOnExistingWindow == [][\A w \in Wins : ReadyHandled(w) => mainWindow # 0]_vars

====
